---------------------------- MODULE Spec2Model ----------------------------
(***************************************************************************)
(* Creational-pattern catalogue: the CustomerBuilder / CustomerDirector    *)
(* pair, the ConcreteBuilder / Director pair, the two switch-based         *)
(* factories (CarFactory, PaymentProcessorFactory), the singletons         *)
(* (Singleton, Logger), the prototypes (ConcretePrototype, Circle,         *)
(* Rectangle) and the GUI abstract factory.                                *)
(*                                                                         *)
(* Objects live on heaps indexed by reference: `customers' and `products'  *)
(* are the objects allocated by `new Customer(...)' and `new Product()',   *)
(* a reference is an index.  `ret' records the most recent call of the     *)
(* client: which method, on which receiver, with which arguments, and how  *)
(* it ended (a returned reference, void, or a thrown error).               *)
(***************************************************************************)
EXTENDS Naturals, Sequences, FiniteSets

VARIABLES
  builders,    \* CustomerBuilder instances: reference -> private fields
  touched,     \* history: per builder, the fields set since construction / last build / reset
  built,       \* history: per builder, what its last build() returned ("never" if none)
  customers,   \* heap of Customer objects the client still holds
  director,    \* CustomerDirector.builder (Undefined until setBuilder)
  products,    \* heap of Product objects: reference -> parts array
  cbProduct,   \* ConcreteBuilder.product: reference into products
  sdirector,   \* Director.builder (Undefined until setBuilder)
  made,        \* the object the last factory call returned (NoVariant if none)
  ret,         \* the most recent call and its outcome
  variants,    \* heap of the factory-made objects the client keeps
  outcomes,    \* history: each factory call made so far -> its first outcome
  callers,     \* the callers sharing the CustomerDirector: where each is in its recipe
  exclusive,   \* TRUE while a recipe runs to its end before another one starts
  instance,    \* the static `instance' field of Singleton and of Logger
  singletons,  \* heap of the Singleton and Logger objects: reference -> class
  handed,      \* history: the references getInstance() of each class has returned
  value,       \* the static Singleton._value
  apps,        \* heap of Application objects: reference -> its logger field
  shapes,      \* heap of Rectangle, Circle and ConcretePrototype objects
  records,     \* heap of the ShapeProperties and UserDetails records
  widgets      \* heap of the GUI buttons and checkboxes

vars == <<builders, touched, built, customers, director,
          products, cbProduct, sdirector, made, ret, variants, outcomes,
          callers, exclusive,
          instance, singletons, handed, value, apps, shapes, records, widgets>>

custVars == <<builders, touched, built, customers, director>>
prodVars == <<products, cbProduct, sdirector>>
keptVars == <<variants, outcomes>>
\* the state of the classes other than the builders and the simple factories' last result
sharedVars == <<callers, exclusive>>
singleVars == <<instance, singletons, handed, value, apps>>
protoVars == <<shapes, records>>
guiVars == <<widgets>>
moreVars == <<keptVars, sharedVars, singleVars, protoVars, guiVars>>
\* what an action on one group of classes leaves alone among the other groups
exceptKept == <<sharedVars, singleVars, protoVars, guiVars>>
exceptShared == <<keptVars, singleVars, protoVars, guiVars>>
exceptSingle == <<keptVars, sharedVars, protoVars, guiVars>>
exceptProto == <<keptVars, sharedVars, singleVars, guiVars>>
exceptGui == <<keptVars, sharedVars, singleVars, protoVars>>

-----------------------------------------------------------------------------
(* Bounds of the model *)

\* Customer objects the client holds at one time
MaxCustomers == 1
\* Customer objects the client holds at one time where earlier customers are compared
MaxHeld == 2
\* Product objects the client holds at one time
MaxProducts == 1
\* parts the simple Director's recipes push onto one Product
MaxParts == 3
\* parts a client pushes onto one Product by calling the part setters itself
MaxDirectParts == 2
\* letters of a tag whose case differs from the rest of the tag
MaxOddCase == 2

-----------------------------------------------------------------------------
(* Values *)

\* string arguments the client passes; "" is the builder's default
Str == {"", "abc"}

Fields == {"firstName", "lastName", "phoneNumber", "email"}

\* the value of a field declared with `!' and never assigned
Undefined == 0

\* the CustomerBuilder instances that exist
BuilderIds == {1, 2}

\* the ConcreteBuilder instance
TheConcreteBuilder == 1

-----------------------------------------------------------------------------
(* Outcomes of a call *)

\* Records list their fields in the order the module first names them, the
\* order of TLC's normal form of a record.

\* op: the method; b: the receiver (or the object written); args: the arguments;
\* kind: what came back; val: the returned reference; again: for a build() on a
\* builder no setter touched since its previous build(), what that build returned
Returned(op, b, args, kind, val) ==
  [op |-> op, b |-> b, args |-> args, kind |-> kind, val |-> val,
   err |-> "", msg |-> "", names |-> {}, again |-> "no"]

\* err: the thrown error's name; msg: its message; names: the argument values
\* the message quotes
Thrown(op, b, args, err, msg, names) ==
  [op |-> op, b |-> b, args |-> args, kind |-> "throw", val |-> 0,
   err |-> err, msg |-> msg, names |-> names, again |-> "no"]

\* what the client holds after a factory call that returned nothing
NoVariant == [kind |-> "none"]

\* `this.builder.m(...)' with this.builder undefined
UndefinedDereference(op, args) ==
  Thrown(op, Undefined, args, "TypeError",
         "Cannot read properties of undefined", {})

-----------------------------------------------------------------------------
(* Customer, CustomerBuilder *)

\* a constructor that assigns the e-mail address to phoneNumber as well
Customer_emailAsPhone(firstName, lastName, phoneNumber, email) ==
  [firstName |-> firstName, lastName |-> lastName,
   phoneNumber |-> email, email |-> email]

\* new Customer(firstName, lastName, phoneNumber, email)
Customer(firstName, lastName, phoneNumber, email) ==
  [firstName |-> firstName, lastName |-> lastName,
   phoneNumber |-> phoneNumber, email |-> email]

\* the field initialisers of a new CustomerBuilder()
CustomerBuilder_new ==
  [firstName |-> "", lastName |-> "", phoneNumber |-> "", email |-> ""]

\* Each setter assigns one private field of `this' and returns `this'.
\* h is the heap of builders; the result is the new heap and the returned reference.
CustomerBuilder_setFirstName(h, this, firstName) ==
  [h |-> [h EXCEPT ![this].firstName = firstName], r |-> this]

\* setLastName that assigns the first name
CustomerBuilder_setLastName_wrongField(h, this, lastName) ==
  [h |-> [h EXCEPT ![this].firstName = lastName], r |-> this]

CustomerBuilder_setLastName(h, this, lastName) ==
  [h |-> [h EXCEPT ![this].lastName = lastName], r |-> this]

CustomerBuilder_setPhoneNumber(h, this, phoneNumber) ==
  [h |-> [h EXCEPT ![this].phoneNumber = phoneNumber], r |-> this]

\* a setEmail that returns without assigning
CustomerBuilder_setEmail_dropped(h, this, email) == [h |-> h, r |-> this]

CustomerBuilder_setEmail(h, this, email) ==
  [h |-> [h EXCEPT ![this].email = email], r |-> this]

\* reset() that leaves the phone number behind
CustomerBuilder_reset_keepsPhone(h, this) ==
  [h EXCEPT ![this] = [firstName |-> "", lastName |-> "",
                       phoneNumber |-> h[this].phoneNumber, email |-> ""]]

CustomerBuilder_reset(h, this) ==
  [h EXCEPT ![this] = [firstName |-> "", lastName |-> "",
                       phoneNumber |-> "", email |-> ""]]

\* build() without the reset()
CustomerBuilder_build_noReset(h, this) ==
  [h |-> h,
   customer |-> Customer(h[this].firstName, h[this].lastName,
                         h[this].phoneNumber, h[this].email),
   on |-> this]

\* build(): a new Customer from the four fields, then reset(); `on' is the receiver
CustomerBuilder_build(h, this) ==
  [h |-> CustomerBuilder_reset(h, this),
   customer |-> Customer(h[this].firstName, h[this].lastName,
                         h[this].phoneNumber, h[this].email),
   on |-> this]

\* A heap maps the references of the live objects to the objects.
EmptyHeap == [r \in {} |-> 0]

FreeRefs(heap, cap) == (1..cap) \ DOMAIN heap

\* an allocator that hands out a live object again
NewRef_reused(heap, cap) ==
  IF DOMAIN heap = {} THEN 1
  ELSE CHOOSE r \in DOMAIN heap : \A q \in DOMAIN heap : q <= r

\* the reference `new' gives a freshly allocated object: one no live object has
NewRef(heap, cap) ==
  CHOOSE r \in FreeRefs(heap, cap) : \A q \in FreeRefs(heap, cap) : r <= q

\* the heap after storing object o under reference r
Store(heap, r, o) ==
  [x \in DOMAIN heap \cup {r} |-> IF x = r THEN o ELSE heap[x]]

\* the heap after the last reference to r is dropped
Remove(heap, r) == [x \in DOMAIN heap \ {r} |-> heap[x]]

-----------------------------------------------------------------------------
(* CustomerDirector *)

\* a minimal recipe that clears the phone number before it builds
CustomerDirector_buildMinimalCustomer_clearsPhone(h, builder, firstName, lastName, email) ==
  LET s1 == CustomerBuilder_setFirstName(h, builder, firstName)
      s2 == CustomerBuilder_setLastName(s1.h, s1.r, lastName)
      s3 == CustomerBuilder_setPhoneNumber(s2.h, s2.r, "")
      s4 == CustomerBuilder_setEmail(s3.h, s3.r, email)
  IN  CustomerBuilder_build(s4.h, s4.r)

CustomerDirector_buildMinimalCustomer(h, builder, firstName, lastName, email) ==
  LET s1 == CustomerBuilder_setFirstName(h, builder, firstName)
      s2 == CustomerBuilder_setLastName(s1.h, s1.r, lastName)
      s3 == CustomerBuilder_setEmail(s2.h, s2.r, email)
  IN  CustomerBuilder_build(s3.h, s3.r)

CustomerDirector_buildFullCustomer(h, builder, firstName, lastName, phoneNumber, email) ==
  LET s1 == CustomerBuilder_setFirstName(h, builder, firstName)
      s2 == CustomerBuilder_setLastName(s1.h, s1.r, lastName)
      s3 == CustomerBuilder_setPhoneNumber(s2.h, s2.r, phoneNumber)
      s4 == CustomerBuilder_setEmail(s3.h, s3.r, email)
  IN  CustomerBuilder_build(s4.h, s4.r)

-----------------------------------------------------------------------------
(* The client's calls on the customer classes *)

\* a setter called directly on builder b; `apply' is the setter's result
SetterCall(op, field, b, v, apply) ==
  /\ builders' = apply.h
  /\ touched' = [touched EXCEPT ![b] = @ \cup {field}]
  /\ ret' = Returned(op, b, <<v>>, "builder", apply.r)
  /\ UNCHANGED <<built, customers, director, prodVars, made, moreVars>>

SetFirstName(b, v) ==
  SetterCall("setFirstName", "firstName", b, v,
             CustomerBuilder_setFirstName(builders, b, v))

SetLastName(b, v) ==
  SetterCall("setLastName", "lastName", b, v,
             CustomerBuilder_setLastName(builders, b, v))

SetPhoneNumber(b, v) ==
  SetterCall("setPhoneNumber", "phoneNumber", b, v,
             CustomerBuilder_setPhoneNumber(builders, b, v))

SetEmail(b, v) ==
  SetterCall("setEmail", "email", b, v,
             CustomerBuilder_setEmail(builders, b, v))

\* the public reset() called directly
Reset(b) ==
  /\ builders' = CustomerBuilder_reset(builders, b)
  /\ touched' = [touched EXCEPT ![b] = {}]
  /\ ret' = Returned("reset", b, <<>>, "void", 0)
  /\ UNCHANGED <<built, customers, director, prodVars, made, moreVars>>

\* the effect of a finished build: the customer is allocated and returned
BuildOutcome(op, args, res, cap) ==
  LET c == NewRef(customers, cap)
  IN  /\ FreeRefs(customers, cap) # {}
      /\ builders' = res.h
      /\ customers' = Store(customers, c, res.customer)
      /\ touched' = [touched EXCEPT ![res.on] = {}]
      /\ built' = [built EXCEPT ![res.on] =
                     IF \A f \in Fields : res.customer[f] = ""
                       THEN "defaults" ELSE "values"]
      /\ ret' = [Returned(op, res.on, args, "customer", c) EXCEPT
                  !.again = IF op = "build" /\ touched[res.on] = {}
                                            /\ built[res.on] # "never"
                              THEN built[res.on] ELSE "no"]

Build(b, cap) ==
  /\ BuildOutcome("build", <<>>, CustomerBuilder_build(builders, b), cap)
  /\ UNCHANGED <<director, prodVars, made, moreVars>>

\* the client assigns a public field of a customer it holds (ret names the customer)
WriteCustomer(c, field, v) ==
  /\ c \in DOMAIN customers
  /\ customers' = [customers EXCEPT ![c][field] = v]
  /\ ret' = Returned("write", c, <<>>, "void", 0)
  /\ UNCHANGED <<builders, touched, built, director, prodVars, made, moreVars>>

\* the client drops its reference to a customer
DropCustomer(c) ==
  /\ c \in DOMAIN customers
  /\ customers' = Remove(customers, c)
  /\ ret' = Returned("drop", c, <<>>, "void", 0)
  /\ UNCHANGED <<builders, touched, built, director, prodVars, made, moreVars>>

\* a setBuilder that keeps the builder bound first
SetBuilder_keepsFirst(b) ==
  /\ director' = IF director = Undefined THEN b ELSE director
  /\ ret' = Returned("setBuilder", b, <<>>, "void", 0)
  /\ UNCHANGED <<builders, touched, built, customers, prodVars, made, moreVars>>

SetBuilder(b) ==
  /\ director' = b
  /\ ret' = Returned("setBuilder", b, <<>>, "void", 0)
  /\ UNCHANGED <<builders, touched, built, customers, prodVars, made, moreVars>>

BuildMinimalCustomer(f, l, e, cap) ==
  /\ UNCHANGED <<director, prodVars, made, moreVars>>
  /\ IF director = Undefined
       THEN /\ ret' = UndefinedDereference("buildMinimalCustomer", <<f, l, e>>)
            /\ UNCHANGED <<builders, touched, built, customers>>
       ELSE BuildOutcome("buildMinimalCustomer", <<f, l, e>>,
              CustomerDirector_buildMinimalCustomer(builders, director, f, l, e),
              cap)

BuildFullCustomer(f, l, p, e, cap) ==
  /\ UNCHANGED <<director, prodVars, made, moreVars>>
  /\ IF director = Undefined
       THEN /\ ret' = UndefinedDereference("buildFullCustomer", <<f, l, p, e>>)
            /\ UNCHANGED <<builders, touched, built, customers>>
       ELSE BuildOutcome("buildFullCustomer", <<f, l, p, e>>,
              CustomerDirector_buildFullCustomer(builders, director, f, l, p, e),
              cap)

-----------------------------------------------------------------------------
(* Product, ConcreteBuilder, Director *)

\* Product.add: this.parts.push(part)
Product_add(h, this, part) == [h EXCEPT ![this] = Append(@, part)]

\* The builder's state st is the Product heap and the builder's `product' field.
\* reset(): this.product = new Product()
ConcreteBuilder_reset(st) ==
  LET r == NewRef(st.heap, MaxProducts + 1)
  IN  [heap |-> Store(st.heap, r, <<>>), product |-> r]

ConcreteBuilder_setPartA(st) ==
  [st EXCEPT !.heap = Product_add(st.heap, st.product, "PartA")]

ConcreteBuilder_setPartB(st) ==
  [st EXCEPT !.heap = Product_add(st.heap, st.product, "PartB")]

ConcreteBuilder_setPartC(st) ==
  [st EXCEPT !.heap = Product_add(st.heap, st.product, "PartC")]

\* a getProduct that returns the product without resetting the builder
ConcreteBuilder_getProduct_noReset(st) == [st |-> st, result |-> st.product]

\* getProduct(): const result = this.product; this.reset(); return result
ConcreteBuilder_getProduct(st) ==
  [st |-> ConcreteBuilder_reset(st), result |-> st.product]

Director_buildMinimalViableProduct(st) == ConcreteBuilder_setPartA(st)

\* a recipe that adds the parts in another order
Director_buildFullFeaturedProduct_misordered(st) ==
  ConcreteBuilder_setPartC(ConcreteBuilder_setPartA(ConcreteBuilder_setPartB(st)))

Director_buildFullFeaturedProduct(st) ==
  ConcreteBuilder_setPartC(ConcreteBuilder_setPartB(ConcreteBuilder_setPartA(st)))

\* the ConcreteBuilder as the methods see it
BuilderState == [heap |-> products, product |-> cbProduct]

\* the products the client holds
HeldProducts == DOMAIN products \ {cbProduct}

\* The builder's state after a method; a Product nothing refers to any more is
\* collected (live: the references that remain).
ProductsBecome(st, live) ==
  /\ products' = [r \in DOMAIN st.heap \cap live |-> st.heap[r]]
  /\ cbProduct' = st.product

\* room for n more parts on the builder's product
RoomForParts(n, cap) == Len(products[cbProduct]) + n <= cap

SetPartCall(op, st) ==
  /\ RoomForParts(1, MaxDirectParts)
  /\ ProductsBecome(st, HeldProducts \cup {st.product})
  /\ ret' = Returned(op, TheConcreteBuilder, <<>>, "void", 0)
  /\ UNCHANGED <<custVars, sdirector, made, moreVars>>

SetPartA == SetPartCall("setPartA", ConcreteBuilder_setPartA(BuilderState))

SetPartB == SetPartCall("setPartB", ConcreteBuilder_setPartB(BuilderState))

SetPartC == SetPartCall("setPartC", ConcreteBuilder_setPartC(BuilderState))

\* The public reset() called directly.  The product under construction is
\* unreachable once reset() has assigned the new one, so its reference is free
\* for the new Product.
ResetProduct ==
  LET st == ConcreteBuilder_reset([heap |-> Remove(products, cbProduct),
                                   product |-> cbProduct])
  IN  /\ ProductsBecome(st, HeldProducts \cup {st.product})
      /\ ret' = Returned("resetProduct", TheConcreteBuilder, <<>>, "void", 0)
      /\ UNCHANGED <<custVars, sdirector, made, moreVars>>

GetProduct ==
  LET res == ConcreteBuilder_getProduct(BuilderState)
  IN  /\ Cardinality(HeldProducts) < MaxProducts
      /\ ProductsBecome(res.st, HeldProducts \cup {res.result, res.st.product})
      /\ ret' = Returned("getProduct", TheConcreteBuilder, <<>>, "product", res.result)
      /\ UNCHANGED <<custVars, sdirector, made, moreVars>>

\* the client drops its reference to a product
DropProduct(r) ==
  /\ r \in HeldProducts
  /\ products' = Remove(products, r)
  /\ ret' = Returned("dropProduct", r, <<>>, "void", 0)
  /\ UNCHANGED <<custVars, cbProduct, sdirector, made, moreVars>>

SetSimpleBuilder ==
  /\ sdirector' = TheConcreteBuilder
  /\ ret' = Returned("Director.setBuilder", TheConcreteBuilder, <<>>, "void", 0)
  /\ UNCHANGED <<custVars, products, cbProduct, made, moreVars>>

\* a recipe of the simple Director: n parts, st the builder after them
SimpleRecipe(op, n, st) ==
  /\ UNCHANGED <<custVars, sdirector, made, moreVars>>
  /\ IF sdirector = Undefined
       THEN /\ ret' = UndefinedDereference(op, <<>>)
            /\ UNCHANGED <<products, cbProduct>>
       ELSE /\ RoomForParts(n, MaxParts)
            /\ ProductsBecome(st, HeldProducts \cup {st.product})
            /\ ret' = Returned(op, sdirector, <<>>, "void", 0)

BuildMinimalViableProduct ==
  SimpleRecipe("buildMinimalViableProduct", 1,
               Director_buildMinimalViableProduct(BuilderState))

BuildFullFeaturedProduct ==
  SimpleRecipe("buildFullFeaturedProduct", 3,
               Director_buildFullFeaturedProduct(BuilderState))

-----------------------------------------------------------------------------
(* Callers that share the CustomerDirector and its builder *)

Callers == {1, 2}

\* the string caller c passes for every argument of its recipes
Mine(c) == IF c = 1 THEN "ann" ELSE "bob"

\* pc: the statement of the recipe the caller is at (0: in no recipe);
\* got: the customer its last recipe returned (0: none)
IdleCaller == [pc |-> 0, recipe |-> "none", got |-> 0]

\* the statements of a recipe, in order
RecipeSteps(recipe) ==
  IF recipe = "buildFullCustomer"
    THEN <<"setFirstName", "setLastName", "setPhoneNumber", "setEmail", "build">>
    ELSE <<"setFirstName", "setLastName", "setEmail", "build">>

\* the builders after the setter statement stmt of a recipe, called with v
AfterStatement(stmt, v) ==
  CASE stmt = "setFirstName" -> CustomerBuilder_setFirstName(builders, director, v).h
    [] stmt = "setLastName" -> CustomerBuilder_setLastName(builders, director, v).h
    [] stmt = "setPhoneNumber" -> CustomerBuilder_setPhoneNumber(builders, director, v).h
    [] stmt = "setEmail" -> CustomerBuilder_setEmail(builders, director, v).h

\* the field a setter statement assigns
FieldOf(stmt) ==
  CASE stmt = "setFirstName" -> "firstName"
    [] stmt = "setLastName" -> "lastName"
    [] stmt = "setPhoneNumber" -> "phoneNumber"
    [] stmt = "setEmail" -> "email"

\* caller c enters a recipe of the director, letting go of the customer it got
\* before; under exclusive use it waits until no other caller is in a recipe
Call(c, recipe) ==
  /\ callers[c].pc = 0
  /\ exclusive => \A o \in Callers : callers[o].pc = 0
  /\ callers' = [callers EXCEPT ![c] = [pc |-> 1, recipe |-> recipe, got |-> 0]]
  /\ customers' = IF callers[c].got = 0 THEN customers
                  ELSE Remove(customers, callers[c].got)
  /\ ret' = Returned("call", c, <<>>, "void", 0)
  /\ UNCHANGED <<builders, touched, built, director, prodVars, made,
                 exceptShared, exclusive>>

\* caller c executes the next statement of its recipe
Step(c) ==
  LET me == callers[c]
      stmt == RecipeSteps(me.recipe)[me.pc]
      res == CustomerBuilder_build(builders, director)
      r == NewRef(customers, Cardinality(Callers))
  IN  /\ me.pc # 0
      /\ UNCHANGED <<director, prodVars, made, exceptShared, exclusive>>
      /\ IF director = Undefined
           THEN /\ ret' = UndefinedDereference(me.recipe, <<>>)
                /\ callers' = [callers EXCEPT ![c] = IdleCaller]
                /\ UNCHANGED <<builders, touched, built, customers>>
           ELSE IF stmt = "build"
             THEN /\ builders' = res.h
                  /\ customers' = Store(customers, r, res.customer)
                  /\ touched' = [touched EXCEPT ![director] = {}]
                  /\ built' = [built EXCEPT ![director] =
                                 IF \A f \in Fields : res.customer[f] = ""
                                   THEN "defaults" ELSE "values"]
                  /\ callers' = [callers EXCEPT ![c].pc = 0, ![c].got = r]
                  /\ ret' = Returned(me.recipe, director, <<>>, "customer", r)
             ELSE /\ builders' = AfterStatement(stmt, Mine(c))
                  /\ touched' = [touched EXCEPT ![director] = @ \cup {FieldOf(stmt)}]
                  /\ callers' = [callers EXCEPT ![c].pc = @ + 1]
                  /\ ret' = Returned(stmt, director, <<Mine(c)>>, "builder", director)
                  /\ UNCHANGED <<built, customers>>

\* the callers stop taking turns: from now on their recipes may overlap
Share ==
  /\ exclusive
  /\ \A c \in Callers : callers[c].pc = 0
  /\ exclusive' = FALSE
  /\ ret' = Returned("share", 0, <<>>, "void", 0)
  /\ UNCHANGED <<custVars, prodVars, made, exceptShared, callers>>

-----------------------------------------------------------------------------
(* Singleton, Logger, Application *)

\* objects of the singleton classes that fit on the heap
MaxInstances == 3
\* Application objects the client holds at one time
MaxApps == 2

Classes == {"Singleton", "Logger"}

\* numbers the client assigns to Singleton.value
Values == {5, 7}

\* the static state the getInstance methods see
Statics == [instance |-> instance, singletons |-> singletons]

\* if (!C.instance) { C.instance = new C(); } return C.instance;
GetInstance(st, cls) ==
  IF st.instance[cls] = Undefined
    THEN LET r == NewRef(st.singletons, MaxInstances)
         IN  [instance |-> [st.instance EXCEPT ![cls] = r],
              singletons |-> Store(st.singletons, r, cls), r |-> r]
    ELSE [instance |-> st.instance, singletons |-> st.singletons,
          r |-> st.instance[cls]]

\* a getInstance that constructs an object at every call
Singleton_getInstance_eager(st) ==
  LET r == NewRef(st.singletons, MaxInstances)
  IN  [instance |-> [st.instance EXCEPT !["Singleton"] = r],
       singletons |-> Store(st.singletons, r, "Singleton"), r |-> r]

Singleton_getInstance(st) == GetInstance(st, "Singleton")

Logger_getInstance(st) == GetInstance(st, "Logger")

\* getInstance of class cls constructs nothing, or the heap has room
RoomForInstance(cls) ==
  instance[cls] # Undefined \/ FreeRefs(singletons, MaxInstances) # {}

\* the static state after a getInstance of class cls that returned res
StaticsBecome(cls, res) ==
  /\ instance' = res.instance
  /\ singletons' = res.singletons
  /\ handed' = [handed EXCEPT ![cls] = @ \cup {res.r}]

SingletonGetInstance ==
  LET res == Singleton_getInstance(Statics)
  IN  /\ RoomForInstance("Singleton")
      /\ StaticsBecome("Singleton", res)
      /\ ret' = Returned("getInstance", 0, <<"Singleton">>, "instance", res.r)
      /\ UNCHANGED <<custVars, prodVars, made, exceptSingle, value, apps>>

LoggerGetInstance ==
  LET res == Logger_getInstance(Statics)
  IN  /\ RoomForInstance("Logger")
      /\ StaticsBecome("Logger", res)
      /\ ret' = Returned("getInstance", 0, <<"Logger">>, "instance", res.r)
      /\ UNCHANGED <<custVars, prodVars, made, exceptSingle, value, apps>>

\* singleton.value = v, on an instance the client got from getInstance
SetValue(v) ==
  /\ handed["Singleton"] # {}
  /\ value' = v
  /\ ret' = Returned("set value", instance["Singleton"], <<v>>, "void", 0)
  /\ UNCHANGED <<custVars, prodVars, made, exceptSingle, instance, singletons,
                 handed, apps>>

\* singleton.value read
GetValue ==
  /\ handed["Singleton"] # {}
  /\ ret' = Returned("get value", instance["Singleton"], <<>>, "number", value)
  /\ UNCHANGED <<custVars, prodVars, made, exceptSingle, singleVars>>

\* new Application(): this.logger = Logger.getInstance()
NewApplication ==
  LET res == Logger_getInstance(Statics)
      a == NewRef(apps, MaxApps)
  IN  /\ FreeRefs(apps, MaxApps) # {}
      /\ RoomForInstance("Logger")
      /\ StaticsBecome("Logger", res)
      /\ apps' = Store(apps, a, res.r)
      /\ ret' = Returned("new Application", 0, <<>>, "application", a)
      /\ UNCHANGED <<custVars, prodVars, made, exceptSingle, value>>

\* app.run(): two messages through this.logger (val: the logger that logged)
Run(a) ==
  /\ a \in DOMAIN apps
  /\ ret' = Returned("run", a, <<>>, "void", apps[a])
  /\ UNCHANGED <<custVars, prodVars, made, exceptSingle, singleVars>>

\* the client drops its reference to an Application
DropApplication(a) ==
  /\ a \in DOMAIN apps
  /\ apps' = Remove(apps, a)
  /\ ret' = Returned("drop", a, <<>>, "void", 0)
  /\ UNCHANGED <<custVars, prodVars, made, exceptSingle, instance, singletons,
                 handed, value>>

-----------------------------------------------------------------------------
(* CarFactory, PaymentProcessorFactory *)

\* A tag is a string, kept as the sequence of its characters so that case
\* folding works on it character by character.
LowerCase ==
  <<"a", "b", "c", "d", "e", "f", "g", "h", "i", "j", "k", "l", "m",
    "n", "o", "p", "q", "r", "s", "t", "u", "v", "w", "x", "y", "z">>

UpperCase ==
  <<"A", "B", "C", "D", "E", "F", "G", "H", "I", "J", "K", "L", "M",
    "N", "O", "P", "Q", "R", "S", "T", "U", "V", "W", "X", "Y", "Z">>

\* one character of String.prototype.toLowerCase: an upper-case letter maps to
\* its lower-case letter, every other character to itself
ToLowerChar(c) ==
  IF \E i \in DOMAIN UpperCase : UpperCase[i] = c
    THEN LowerCase[CHOOSE i \in DOMAIN UpperCase : UpperCase[i] = c]
    ELSE c

\* a lookup that forgets to fold the case
toLowerCase_missing(str) == str

toLowerCase(str) == [i \in DOMAIN str |-> ToLowerChar(str[i])]

sedan == <<"s", "e", "d", "a", "n">>
suv == <<"s", "u", "v">>
hatchback == <<"h", "a", "t", "c", "h", "b", "a", "c", "k">>
paypal == <<"p", "a", "y", "p", "a", "l">>
stripe == <<"s", "t", "r", "i", "p", "e">>
banktransfer == <<"b", "a", "n", "k", "t", "r", "a", "n", "s", "f", "e", "r">>

\* the case labels of the two switch statements
CarTypes == {sedan, suv, hatchback}
PaymentTypes == {paypal, stripe, banktransfer}

\* new Sedan(model, productionYear) and its siblings: Car's constructor
Sedan(model, productionYear) ==
  [kind |-> "car", model |-> model, productionYear |-> productionYear,
   class |-> "Sedan"]

SUV(model, productionYear) ==
  [kind |-> "car", model |-> model, productionYear |-> productionYear,
   class |-> "SUV"]

Hatchback(model, productionYear) ==
  [kind |-> "car", model |-> model, productionYear |-> productionYear,
   class |-> "Hatchback"]

PayPalProcessor(amount) ==
  [kind |-> "processor", class |-> "PayPalProcessor", amount |-> amount]

StripeProcessor(amount) ==
  [kind |-> "processor", class |-> "StripeProcessor", amount |-> amount]

BankTransferProcessor(amount) ==
  [kind |-> "processor", class |-> "BankTransferProcessor", amount |-> amount]

\* The outcome of a create call: the object returned, or the error thrown.
Return(obj) == [err |-> "", msg |-> "", names |-> {}, obj |-> obj, thrown |-> FALSE]

Throw(err, msg, names) ==
  [err |-> err, msg |-> msg, names |-> names, obj |-> NoVariant, thrown |-> TRUE]

\* a switch whose 'suv' case builds a Sedan
CarFactory_createCar_wrongCase(type, model, productionYear) ==
  LET t == toLowerCase(type)
  IN  IF t = sedan THEN Return(Sedan(model, productionYear))
      ELSE IF t = suv THEN Return(Sedan(model, productionYear))
      ELSE IF t = hatchback THEN Return(Hatchback(model, productionYear))
      ELSE Throw("Error", "Invalid car type", {})

\* a factory that hands out the car it made last, if the client still has one
CarFactory_createCar_cached(type, model, productionYear) ==
  LET t == toLowerCase(type)
  IN  IF made.kind = "car" THEN Return(made)
      ELSE IF t = sedan THEN Return(Sedan(model, productionYear))
      ELSE IF t = suv THEN Return(SUV(model, productionYear))
      ELSE IF t = hatchback THEN Return(Hatchback(model, productionYear))
      ELSE Throw("Error", "Invalid car type", {})

CarFactory_createCar(type, model, productionYear) ==
  LET t == toLowerCase(type)
  IN  IF t = sedan THEN Return(Sedan(model, productionYear))
      ELSE IF t = suv THEN Return(SUV(model, productionYear))
      ELSE IF t = hatchback THEN Return(Hatchback(model, productionYear))
      ELSE Throw("Error", "Invalid car type", {})

PaymentProcessorFactory_createProcessor(type, amount) ==
  LET t == toLowerCase(type)
  IN  IF t = paypal THEN Return(PayPalProcessor(amount))
      ELSE IF t = stripe THEN Return(StripeProcessor(amount))
      ELSE IF t = banktransfer THEN Return(BankTransferProcessor(amount))
      ELSE Throw("Error", "Invalid payment processor type", {})

\* a create call of the client: `made' is the object it got, if any
FactoryCall(op, args, res) ==
  /\ made' = res.obj
  /\ ret' = IF res.thrown
              THEN Thrown(op, 0, args, res.err, res.msg, res.names)
              ELSE Returned(op, 0, args, res.obj.kind, 0)
  /\ UNCHANGED <<custVars, prodVars, moreVars>>

CreateCar(type, model, productionYear) ==
  FactoryCall("createCar", <<type, model, productionYear>>,
              CarFactory_createCar(type, model, productionYear))

CreateProcessor(type, amount) ==
  FactoryCall("createProcessor", <<type, amount>>,
              PaymentProcessorFactory_createProcessor(type, amount))

(* ConcretePrototype, Circle, Rectangle *)

\* prototype objects the client holds at one time
MaxShapes == 2

Colors == {"red", "green"}
UserNames == {"Alice", "Bob"}

\* the literals the client passes to the constructors
ShapeProperties(color) == [x |-> 10, y |-> 20, color |-> color]
UserDetails(name) == [email |-> "alice@example.com", name |-> name, age |-> 30]

\* An object: its class, the reference of its nested record (properties or
\* userDetails), its numeric fields (width and height, or radius), and the
\* object it was created from with Object.create (0: none).
Shape(class, nested, dims, proto) ==
  [class |-> class, nested |-> nested, dims |-> dims, proto |-> proto]

\* the heaps as the methods see them
Heaps == [shapes |-> shapes, records |-> records]

\* `new C(literal, ...)': the literal and the object are allocated
Construct(st, class, literal, dims, proto) ==
  LET n == NewRef(st.records, MaxShapes)
      r == NewRef(st.shapes, MaxShapes)
  IN  [shapes |-> Store(st.shapes, r, Shape(class, n, dims, proto)),
       records |-> Store(st.records, n, literal), r |-> r]

\* { ...rec }: a new record with the own fields of rec
Spread(rec) == [f \in DOMAIN rec |-> rec[f]]

\* return new Rectangle({ ...this.properties }, this.width, this.height)
Rectangle_clone(st, this) ==
  Construct(st, "Rectangle", Spread(st.records[st.shapes[this].nested]),
            st.shapes[this].dims, 0)

\* return new Circle({ ...this.properties }, this.radius)
Circle_clone(st, this) ==
  Construct(st, "Circle", Spread(st.records[st.shapes[this].nested]),
            st.shapes[this].dims, 0)

\* a clone that is given no userDetails of its own and reads the original's
ConcretePrototype_clone_shared(st, this) ==
  LET r == NewRef(st.shapes, MaxShapes)
  IN  [shapes |-> Store(st.shapes, r, Shape(st.shapes[this].class,
                                           st.shapes[this].nested, <<>>, this)),
       records |-> st.records, r |-> r]

\* const clone = Object.create(this); clone.userDetails = { ...this.userDetails }
ConcretePrototype_clone(st, this) ==
  Construct(st, st.shapes[this].class,
            Spread(st.records[st.shapes[this].nested]), <<>>, this)

\* an action whose method returned res: the new heaps and the returned object
HeapsBecome(op, b, args, res) ==
  /\ FreeRefs(shapes, MaxShapes) # {}
  /\ FreeRefs(records, MaxShapes) # {}
  /\ shapes' = res.shapes
  /\ records' = res.records
  /\ ret' = Returned(op, b, args, "object", res.r)
  /\ UNCHANGED <<custVars, prodVars, made, exceptProto>>

NewRectangle(color) ==
  HeapsBecome("new Rectangle", 0, <<color>>,
    Construct(Heaps, "Rectangle", ShapeProperties(color), <<100, 50>>, 0))

NewCircle(color) ==
  HeapsBecome("new Circle", 0, <<color>>,
    Construct(Heaps, "Circle", ShapeProperties(color), <<30>>, 0))

NewConcretePrototype(name) ==
  HeapsBecome("new ConcretePrototype", 0, <<name>>,
    Construct(Heaps, "ConcretePrototype", UserDetails(name), <<>>, 0))

\* o.clone(), dispatched on the class of o
Clone(o) ==
  /\ o \in DOMAIN shapes
  /\ HeapsBecome("clone", o, <<>>,
       CASE shapes[o].class = "Rectangle" -> Rectangle_clone(Heaps, o)
         [] shapes[o].class = "Circle" -> Circle_clone(Heaps, o)
         [] shapes[o].class = "ConcretePrototype" ->
              ConcretePrototype_clone(Heaps, o))

\* o.properties[field] = v, or o.getUserDetails()[field] = v
WriteNested(o, field, v) ==
  /\ o \in DOMAIN shapes
  /\ field \in DOMAIN records[shapes[o].nested]
  /\ records' = [records EXCEPT ![shapes[o].nested][field] = v]
  /\ ret' = Returned("write nested", o, <<field, v>>, "void", 0)
  /\ UNCHANGED <<custVars, prodVars, made, exceptProto, shapes>>

\* the client drops its reference to an object no clone was created from
DropShape(o) ==
  /\ o \in DOMAIN shapes
  /\ \A p \in DOMAIN shapes : shapes[p].proto # o
  /\ shapes' = Remove(shapes, o)
  /\ records' = IF \E p \in DOMAIN shapes \ {o} : shapes[p].nested = shapes[o].nested
                  THEN records ELSE Remove(records, shapes[o].nested)
  /\ ret' = Returned("drop", o, <<>>, "void", 0)
  /\ UNCHANGED <<custVars, prodVars, made, exceptProto>>

-----------------------------------------------------------------------------
(* Button, Checkbox, GUIFactory *)

\* buttons and checkboxes the client holds at one time
MaxWidgets == 3

Families == {"Windows", "MacOS"}

\* A component: button or checkbox, the family of its class, and for a
\* checkbox the reference in its private `button' field (0 for a button).
WindowsButton == [kind |-> "button", button |-> 0, family |-> "Windows"]

MacOSButton == [kind |-> "button", button |-> 0, family |-> "MacOS"]

WindowsCheckbox(button) ==
  [kind |-> "checkbox", button |-> button, family |-> "Windows"]

MacOSCheckbox(button) ==
  [kind |-> "checkbox", button |-> button, family |-> "MacOS"]

WindowsFactory_createButton == WindowsButton

\* a Windows factory that hands out MacOS checkboxes
WindowsFactory_createCheckbox_mac(button) == MacOSCheckbox(button)

WindowsFactory_createCheckbox(button) == WindowsCheckbox(button)

MacOSFactory_createButton == MacOSButton

MacOSFactory_createCheckbox(button) == MacOSCheckbox(button)

\* toggle(): this.button.onClick(...); the button whose onClick runs
Checkbox_toggle(w, this) == w[this].button

\* a component the factory returned is allocated and handed to the client
WidgetMade(op, args, obj) ==
  LET r == NewRef(widgets, MaxWidgets)
  IN  /\ FreeRefs(widgets, MaxWidgets) # {}
      /\ widgets' = Store(widgets, r, obj)
      /\ ret' = Returned(op, 0, args, obj.kind, r)
      /\ UNCHANGED <<custVars, prodVars, made, exceptGui>>

\* factory.createButton()
CreateButton(factory) ==
  WidgetMade("createButton", <<factory>>,
             IF factory = "Windows" THEN WindowsFactory_createButton
             ELSE MacOSFactory_createButton)

\* factory.createCheckbox(button), with a button the client holds
CreateCheckbox(factory, b) ==
  /\ b \in DOMAIN widgets
  /\ widgets[b].kind = "button"
  /\ WidgetMade("createCheckbox", <<factory, b>>,
                IF factory = "Windows" THEN WindowsFactory_createCheckbox(b)
                ELSE MacOSFactory_createCheckbox(b))

\* checkbox.toggle() (val: the button whose onClick ran)
Toggle(c) ==
  /\ c \in DOMAIN widgets
  /\ widgets[c].kind = "checkbox"
  /\ ret' = Returned("toggle", c, <<>>, "void", Checkbox_toggle(widgets, c))
  /\ UNCHANGED <<custVars, prodVars, made, moreVars>>

\* the client drops its reference to a component no checkbox holds
DropWidget(r) ==
  /\ r \in DOMAIN widgets
  /\ \A c \in DOMAIN widgets : widgets[c].button # r
  /\ widgets' = Remove(widgets, r)
  /\ ret' = Returned("drop", r, <<>>, "void", 0)
  /\ UNCHANGED <<custVars, prodVars, made, exceptGui>>

-----------------------------------------------------------------------------
(* The tags the client passes *)

ToUpperChar(c) ==
  IF \E i \in DOMAIN LowerCase : LowerCase[i] = c
    THEN UpperCase[CHOOSE i \in DOMAIN LowerCase : LowerCase[i] = c]
    ELSE c

\* every spelling of tag in a mix of upper and lower case
RECURSIVE CaseMixes(_)
CaseMixes(tag) ==
  IF tag = <<>> THEN {<<>>}
  ELSE {<<c>> \o rest : c \in {Head(tag), ToUpperChar(Head(tag))},
                        rest \in CaseMixes(Tail(tag))}

UpperCount(str) == Cardinality({i \in DOMAIN str : str[i] # ToLowerChar(str[i])})

\* the spellings of tag that are lower case or upper case but for MaxOddCase letters
Spellings(tag) ==
  {str \in CaseMixes(tag) :
     \/ UpperCount(str) <= MaxOddCase
     \/ Len(str) - UpperCount(str) <= MaxOddCase}

minivan == <<"m", "i", "n", "i", "v", "a", "n">>

\* tags that match no case label of either switch
UnknownTags ==
  {minivan, <<"M", "i", "n", "i", "v", "a", "n">>,
   <<"M", "I", "N", "I", "V", "A", "N">>,
   <<>>, <<"s">>, <<"s", "e", "d", "a">>, <<"s", "e", "d", "a", "n", "s">>,
   <<"s", "u", "v", " ">>, <<"s", "_", "u", "v">>, <<"p", "a", "y", "-", "p", "a", "l">>}

CarTagInputs ==
  UNION {Spellings(t) : t \in CarTypes} \cup UnknownTags \cup {stripe}

PaymentTagInputs ==
  UNION {Spellings(t) : t \in PaymentTypes} \cup UnknownTags \cup {suv}

Models == {"Toyota Camry", "Honda CR-V"}
Years == {2019, 2020}
Amounts == {100, 200}

-----------------------------------------------------------------------------
Init ==
  /\ builders = [b \in BuilderIds |-> CustomerBuilder_new]
  /\ touched = [b \in BuilderIds |-> {}]
  /\ built = [b \in BuilderIds |-> "never"]
  /\ customers = EmptyHeap
  /\ director = Undefined
  /\ products = Store(EmptyHeap, 1, <<>>)
  /\ cbProduct = 1
  /\ sdirector = Undefined
  /\ made = NoVariant
  /\ ret = Returned("init", 0, <<>>, "void", 0)
  /\ variants = EmptyHeap
  /\ outcomes = EmptyHeap
  /\ callers = [c \in Callers |-> IdleCaller]
  /\ exclusive = TRUE
  /\ instance = [cls \in Classes |-> Undefined]
  /\ singletons = EmptyHeap
  /\ handed = [cls \in Classes |-> {}]
  /\ value = Undefined
  /\ apps = EmptyHeap
  /\ shapes = EmptyHeap
  /\ records = EmptyHeap
  /\ widgets = EmptyHeap

\* One CustomerBuilder used directly by a client that holds at most
\* MaxCustomers customers at a time.
Next ==
  \/ \E v \in Str : SetFirstName(1, v)
  \/ \E v \in Str : SetLastName(1, v)
  \/ \E v \in Str : SetPhoneNumber(1, v)
  \/ \E v \in Str : SetEmail(1, v)
  \/ Reset(1)
  \/ Build(1, MaxCustomers)
  \/ \E c \in 1..MaxCustomers : DropCustomer(c)

Spec == Init /\ [][Next]_vars

\* A client that keeps up to MaxHeld customers of one builder and writes their fields.
NextAlias ==
  \/ \E v \in Str : SetFirstName(1, v)
  \/ \E v \in Str : SetPhoneNumber(1, v)
  \/ Build(1, MaxHeld)
  \/ \E c \in 1..MaxHeld, field \in Fields, v \in Str : WriteCustomer(c, field, v)

SpecAlias == Init /\ [][NextAlias]_vars

\* A builder used only through the director's recipes.
NextRecipes ==
  \/ SetBuilder(1)
  \/ \E f \in Str, l \in Str, e \in Str : BuildMinimalCustomer(f, l, e, MaxHeld)
  \/ \E f \in Str, l \in Str, p \in Str, e \in Str :
       BuildFullCustomer(f, l, p, e, MaxHeld)
  \/ \E c \in 1..MaxHeld : DropCustomer(c)

SpecRecipes == Init /\ [][NextRecipes]_vars

\* Both directors; the CustomerBuilder's phone number may also be set directly.
NextDirectors ==
  \/ SetBuilder(1)
  \/ \E v \in Str : SetPhoneNumber(1, v)
  \/ \E f \in Str, l \in Str, e \in Str : BuildMinimalCustomer(f, l, e, MaxCustomers)
  \/ \E f \in Str, l \in Str, p \in Str, e \in Str :
       BuildFullCustomer(f, l, p, e, MaxCustomers)
  \/ \E c \in 1..MaxCustomers : DropCustomer(c)
  \/ SetSimpleBuilder
  \/ BuildMinimalViableProduct
  \/ BuildFullFeaturedProduct
  \/ ResetProduct

SpecDirectors == Init /\ [][NextDirectors]_vars

\* The ConcreteBuilder used directly by a client that holds at most MaxProducts
\* products at a time.
NextProduct ==
  \/ SetPartA
  \/ SetPartB
  \/ SetPartC
  \/ ResetProduct
  \/ GetProduct
  \/ \E r \in 1..(MaxProducts + 1) : DropProduct(r)

SpecProduct == Init /\ [][NextProduct]_vars

\* The two factories called with registered and unregistered tags.
NextFactory ==
  \/ \E type \in CarTagInputs, model \in Models, year \in Years :
       CreateCar(type, model, year)
  \/ \E type \in PaymentTagInputs, amount \in Amounts :
       CreateProcessor(type, amount)

SpecFactory == Init /\ [][NextFactory]_vars

-----------------------------------------------------------------------------
(* Properties of CustomerBuilder and CustomerDirector *)

AllDefault(rec) == \A f \in Fields : rec[f] = ""

HasFields(rec, f, l, p, e) ==
  /\ rec.firstName = f
  /\ rec.lastName = l
  /\ rec.phoneNumber = p
  /\ rec.email = e

SetterOf(f) ==
  CASE f = "firstName" -> "setFirstName"
    [] f = "lastName" -> "setLastName"
    [] f = "phoneNumber" -> "setPhoneNumber"
    [] f = "email" -> "setEmail"

\* C1: immediately after every build() the builder's fields are those of a
\* freshly constructed builder, and a build() on a builder that no setter has
\* touched since its previous build() returns a customer whose four fields
\* are all the empty string.
C1_IdempotentReset ==
  ret.op = "build" =>
    /\ AllDefault(builders[ret.b])
    /\ ret.again # "no" => AllDefault(customers[ret.val])

\* a second build() right after one that returned a customer with values
C1_Witness ==
  /\ ret.op = "build"
  /\ ret.again = "values"
  /\ AllDefault(customers[ret.val])

\* C2: build() returns a reference no customer held so far has, and no call
\* changes the fields of a customer other than the one a write names:
\* setters, build() and writes to other customers leave it as it was.
C2_SnapshotIndependence ==
  [][/\ ret'.kind = "customer" => ret'.val \notin DOMAIN customers
     /\ \A c \in DOMAIN customers :
          ~(ret'.op = "write" /\ ret'.b = c) =>
            /\ c \in DOMAIN customers'
            /\ customers'[c] = customers[c]]_vars

\* an earlier customer keeps its values after a later one was built and written
C2_Witness ==
  /\ ret.op = "write"
  /\ ret.b = 2
  /\ 1 \in DOMAIN customers
  /\ HasFields(customers[1], "abc", "", "abc", "")
  /\ HasFields(customers[2], "", "abc", "", "abc")

\* C3: on a builder used only through the recipes, buildMinimalCustomer(f, l, e)
\* returns (f, l, "", e) and buildFullCustomer(f, l, p, e) returns (f, l, p, e),
\* whatever recipes ran before.
C3_RecipeDeterminism ==
  /\ (ret.op = "buildMinimalCustomer" /\ ret.kind = "customer") =>
       HasFields(customers[ret.val], ret.args[1], ret.args[2], "", ret.args[3])
  /\ (ret.op = "buildFullCustomer" /\ ret.kind = "customer") =>
       HasFields(customers[ret.val], ret.args[1], ret.args[2], ret.args[3],
                 ret.args[4])

\* a minimal customer built after a full one that had a phone number
C3_Witness ==
  /\ ret.op = "buildMinimalCustomer"
  /\ ret.val = 2
  /\ 1 \in DOMAIN customers
  /\ HasFields(customers[1], "abc", "", "abc", "abc")
  /\ HasFields(customers[2], "", "abc", "", "abc")

\* the builders after the setter of field f is called on builder b with v
AfterSetter(f, h, b, v) ==
  CASE f = "firstName" -> CustomerBuilder_setFirstName(h, b, v).h
    [] f = "lastName" -> CustomerBuilder_setLastName(h, b, v).h
    [] f = "phoneNumber" -> CustomerBuilder_setPhoneNumber(h, b, v).h
    [] f = "email" -> CustomerBuilder_setEmail(h, b, v).h

\* the step that set field f of builder b to w commutes with the setter of every
\* other field: either order gives the same builder
Commute(f, b, w) ==
  \A g \in Fields \ {f}, v \in Str :
    AfterSetter(g, builders', b, v)
      = AfterSetter(f, AfterSetter(g, builders, b, v), b, w)

\* the step that set field f of builder b to w gives the same builder whatever
\* value the same setter had written just before
LastWins(f, b, w) ==
  \A v \in Str :
    AfterSetter(f, AfterSetter(f, builders, b, v), b, w) = builders'

\* C4: a setter returns normally the builder it was called on, assigns its
\* argument to its own field and leaves the other three fields, the other
\* builders and the customers unchanged; a setter called twice leaves the later
\* value, and setters commute.
C4_SetterFrame ==
  [][\A f \in Fields :
       ret'.op = SetterOf(f) =>
         /\ ret'.kind = "builder"
         /\ ret'.val = ret'.b
         /\ builders'[ret'.b][f] = ret'.args[1]
         /\ \A g \in Fields \ {f} : builders'[ret'.b][g] = builders[ret'.b][g]
         /\ \A o \in BuilderIds \ {ret'.b} : builders'[o] = builders[o]
         /\ customers' = customers
         /\ LastWins(f, ret'.b, ret'.args[1])
         /\ Commute(f, ret'.b, ret'.args[1])]_vars

\* setLastName overwrote a set last name while the other fields were pending
C4_Witness ==
  /\ ret.op = "setLastName"
  /\ ret.args = <<"">>
  /\ touched[1] = Fields
  /\ HasFields(builders[1], "abc", "", "abc", "abc")

\* C5: build() returns normally in every builder state, with no check of the
\* fields: the customer holds the value each field had at the call, and every
\* field not set since the last build (or never set) is the empty string.
C5_BuildNeverFails ==
  [][ret'.op = "build" =>
       /\ ret'.kind = "customer"
       /\ \A f \in Fields : customers'[ret'.val][f] = builders[ret'.b][f]
       /\ \A f \in Fields \ touched[ret'.b] : customers'[ret'.val][f] = ""]_vars

\* a customer built with only its first name set
C5_Witness ==
  /\ ret.op = "build"
  /\ ret.again = "no"
  /\ HasFields(customers[ret.val], "abc", "", "", "")

-----------------------------------------------------------------------------
(* Properties of the directors *)

CustomerRecipes == {"buildMinimalCustomer", "buildFullCustomer"}
SimpleRecipes == {"buildMinimalViableProduct", "buildFullFeaturedProduct"}

\* C6: a recipe called on a director whose builder was never set fails with
\* a BuilderNotBoundError.
C6_UnboundDirector ==
  (\/ ret.op \in CustomerRecipes /\ director = Undefined
   \/ ret.op \in SimpleRecipes /\ sdirector = Undefined) =>
    /\ ret.kind = "throw"
    /\ ret.err = "BuilderNotBoundError"

-----------------------------------------------------------------------------
(* Properties of the factories *)

\* str spells tag in some mix of upper and lower case
SpellsTag(str, tag) ==
  /\ Len(str) = Len(tag)
  /\ \A i \in DOMAIN tag : str[i] \in {tag[i], ToUpperChar(tag[i])}

Registered(op) == IF op = "createCar" THEN CarTypes ELSE PaymentTypes

FactoryOps == {"createCar", "createProcessor"}

\* C7: a create call whose tag spells no registered tag fails with an
\* UnknownVariantError that names the tag, and returns nothing.
C7_UnknownVariant ==
  (/\ ret.op \in FactoryOps
   /\ ~ \E tag \in Registered(ret.op) : SpellsTag(ret.args[1], tag)) =>
    /\ ret.kind = "throw"
    /\ made = NoVariant
    /\ ret.err = "UnknownVariantError"
    /\ ret.args[1] \in ret.names

\* C8: a create call whose tag spells a registered tag in any mix of case
\* returns what the call with the lower-case tag returns.
C8_CaseInsensitive ==
  /\ ret.op = "createCar" =>
       \A tag \in CarTypes :
         SpellsTag(ret.args[1], tag) =>
           /\ ret.kind = "car"
           /\ ~ CarFactory_createCar(tag, ret.args[2], ret.args[3]).thrown
           /\ made = CarFactory_createCar(tag, ret.args[2], ret.args[3]).obj
  /\ ret.op = "createProcessor" =>
       \A tag \in PaymentTypes :
         SpellsTag(ret.args[1], tag) =>
           /\ ret.kind = "processor"
           /\ ~ PaymentProcessorFactory_createProcessor(tag, ret.args[2]).thrown
           /\ made = PaymentProcessorFactory_createProcessor(tag, ret.args[2]).obj

\* createProcessor("BankTransfer", 200) returned a BankTransferProcessor
C8_Witness ==
  /\ ret.op = "createProcessor"
  /\ ret.args[1] = <<"B", "a", "n", "k", "T", "r", "a", "n", "s", "f", "e", "r">>
  /\ ret.args[2] = 200
  /\ made.kind = "processor"
  /\ made.class = "BankTransferProcessor"

\* the class each registered car tag stands for
CarClass(tag) ==
  CASE tag = sedan -> "Sedan"
    [] tag = suv -> "SUV"
    [] tag = hatchback -> "Hatchback"

\* C9: createCar(tag, model, year) with a registered tag returns a car with that
\* model and year whose class the tag alone decides: Sedan, SUV or Hatchback.
C9_FactoryClosure ==
  (ret.op = "createCar" /\ ret.args[1] \in CarTypes) =>
    /\ ret.kind = "car"
    /\ made.kind = "car"
    /\ made.model = ret.args[2]
    /\ made.productionYear = ret.args[3]
    /\ made.class = CarClass(ret.args[1])
    /\ \A other \in CarTypes \ {ret.args[1]} : made.class # CarClass(other)

\* createCar("suv", "Honda CR-V", 2020) returned that SUV
C9_Witness ==
  /\ ret.op = "createCar"
  /\ ret.args = <<suv, "Honda CR-V", 2020>>
  /\ made.class = "SUV"
  /\ made.model = "Honda CR-V"
  /\ made.productionYear = 2020

-----------------------------------------------------------------------------
(* Rebinding the CustomerDirector *)

\* A client with two CustomerBuilders that binds the director to either, leaves
\* a phone number pending on either, and runs the recipes (the last name and the
\* e-mail address are the same in every call).
NextRebind ==
  \/ \E b \in BuilderIds : SetBuilder(b)
  \/ \E b \in BuilderIds, v \in Str : SetPhoneNumber(b, v)
  \/ \E f \in Str : BuildMinimalCustomer(f, "abc", "abc", MaxHeld)
  \/ \E f \in Str, p \in Str : BuildFullCustomer(f, "abc", p, "abc", MaxHeld)
  \/ \E c \in 1..MaxHeld : DropCustomer(c)

SpecRebind == Init /\ [][NextRebind]_vars

\* C11: setBuilder changes only the director's binding; a recipe works on the
\* builder bound last and on no other: the customer it returns is made of its
\* arguments and of that builder's pending phone number, that builder is reset,
\* every other builder keeps its pending values, and every customer returned
\* before keeps its values.
C11_Rebinding ==
  [][/\ ret'.op = "setBuilder" =>
          /\ director' = ret'.b
          /\ builders' = builders
          /\ customers' = customers
     /\ (ret'.op \in CustomerRecipes /\ ret'.kind = "customer") =>
          /\ director' = director
          /\ ret'.b = director
          /\ \A o \in BuilderIds \ {director} : builders'[o] = builders[o]
          /\ AllDefault(builders'[director])
          /\ customers'[ret'.val].phoneNumber =
               IF ret'.op = "buildFullCustomer" THEN ret'.args[3]
               ELSE builders[director].phoneNumber
          /\ customers'[ret'.val].firstName = ret'.args[1]
          /\ \A c \in DOMAIN customers :
               c \in DOMAIN customers' /\ customers'[c] = customers[c]]_vars

\* after a recipe on builder 1 the director was rebound to builder 2 and ran a
\* minimal recipe there: the customer has no phone number although one is
\* pending on builder 1, and the customer from builder 1 is still held
C11_Witness ==
  /\ director = 2
  /\ ret.op = "buildMinimalCustomer"
  /\ ret.b = 2
  /\ built[1] = "values"
  /\ builders[1].phoneNumber = "abc"
  /\ Cardinality(DOMAIN customers) = 2
  /\ customers[ret.val].phoneNumber = ""
  /\ \E c \in DOMAIN customers \ {ret.val} : customers[c].phoneNumber = "abc"

-----------------------------------------------------------------------------
(* The factories, with a client that keeps what they return *)

\* variants the client keeps at one time
MaxVariants == 2

\* a factory call whose result, if any, the client keeps; outcomes remembers
\* the first outcome of every call
KeptCall(op, args, res) ==
  LET r == NewRef(variants, MaxVariants)
      call == <<op, args>>
  IN  /\ FreeRefs(variants, MaxVariants) # {}
      /\ made' = res.obj
      /\ variants' = IF res.thrown THEN variants ELSE Store(variants, r, res.obj)
      /\ outcomes' = IF call \in DOMAIN outcomes THEN outcomes
                     ELSE Store(outcomes, call, res)
      /\ ret' = IF res.thrown
                  THEN Thrown(op, 0, args, res.err, res.msg, res.names)
                  ELSE Returned(op, 0, args, res.obj.kind, r)
      /\ UNCHANGED <<custVars, prodVars, exceptKept>>

KeepCar(type, model, productionYear) ==
  KeptCall("createCar", <<type, model, productionYear>>,
           CarFactory_createCar(type, model, productionYear))

KeepProcessor(type, amount) ==
  KeptCall("createProcessor", <<type, amount>>,
           PaymentProcessorFactory_createProcessor(type, amount))

\* the client drops its reference to a variant
DropVariant(r) ==
  /\ r \in DOMAIN variants
  /\ variants' = Remove(variants, r)
  /\ ret' = Returned("drop", r, <<>>, "void", 0)
  /\ UNCHANGED <<custVars, prodVars, made, outcomes, exceptKept>>

\* the tags this client passes: a registered one, one in upper case, an unknown one
KeptCarTags == {sedan, <<"S", "U", "V">>, minivan}
KeptPaymentTags == {paypal, minivan}

NextKept ==
  \/ \E type \in KeptCarTags, model \in Models, year \in {2020} :
       KeepCar(type, model, year)
  \/ \E type \in KeptPaymentTags, amount \in {100} : KeepProcessor(type, amount)
  \/ \E r \in 1..MaxVariants : DropVariant(r)

SpecKept == Init /\ [][NextKept]_vars

\* C12: a factory call has the outcome (variant class and fields, or error) that
\* the first call with the same arguments had, whatever calls were made in
\* between; a returned variant is a new object; and no call changes a variant
\* returned earlier.
C12_Stateless ==
  [][ret'.op \in FactoryOps =>
       /\ <<ret'.op, ret'.args>> \in DOMAIN outcomes =>
            /\ (ret'.kind = "throw") = outcomes[<<ret'.op, ret'.args>>].thrown
            /\ ret'.err = outcomes[<<ret'.op, ret'.args>>].err
            /\ ret'.msg = outcomes[<<ret'.op, ret'.args>>].msg
            /\ made' = outcomes[<<ret'.op, ret'.args>>].obj
       /\ ret'.kind # "throw" =>
            /\ ret'.val \notin DOMAIN variants
            /\ variants'[ret'.val] = made'
       /\ ret'.kind = "throw" => made' = NoVariant
       /\ \A r \in DOMAIN variants :
            r \in DOMAIN variants' /\ variants'[r] = variants[r]]_vars

\* the same createCar call made twice, with a failed call in the history, gave
\* two objects with the same class and fields
C12_Witness ==
  /\ ret.op = "createCar"
  /\ ret.kind = "car"
  /\ Cardinality(DOMAIN variants) = 2
  /\ \A r \in DOMAIN variants : variants[r] = made /\ made.class = "SUV"
  /\ \E call \in DOMAIN outcomes : outcomes[call].thrown
  /\ \E call \in DOMAIN outcomes : outcomes[call].obj.kind = "processor"

-----------------------------------------------------------------------------
(* Two callers of one CustomerDirector *)

NextShared ==
  \/ SetBuilder(1)
  \/ \E c \in Callers, recipe \in CustomerRecipes : Call(c, recipe)
  \/ \E c \in Callers : Step(c)
  \/ Share

SpecShared == Init /\ [][NextShared]_vars

\* the customer caller c holds is made of c's own arguments (and of no phone
\* number if its recipe was the minimal one)
OwnCustomer(c) ==
  LET cust == customers[callers[c].got]
  IN  /\ cust.firstName = Mine(c)
      /\ cust.lastName = Mine(c)
      /\ cust.email = Mine(c)
      /\ cust.phoneNumber =
           IF callers[c].recipe = "buildFullCustomer" THEN Mine(c) ELSE ""

\* C13: while each recipe runs as one exclusive step sequence, every customer a
\* caller got back holds exactly that caller's arguments.  (That overlapping
\* recipes mix or lose values is the reachable state C13_Witness.)
C13_SerializedRecipes ==
  exclusive =>
    \A c \in Callers : callers[c].got # 0 => OwnCustomer(c)

\* with overlapping recipes caller 1 got a customer carrying caller 2's last name
\* and caller 2 one that lost its first and last name
C13_Witness ==
  /\ ~ exclusive
  /\ callers[1].got # 0
  /\ callers[2].got # 0
  /\ customers[callers[1].got].firstName = "ann"
  /\ customers[callers[1].got].lastName = "bob"
  /\ customers[callers[2].got].firstName = ""
  /\ customers[callers[2].got].lastName = ""
  /\ customers[callers[2].got].email = "bob"

-----------------------------------------------------------------------------
(* Properties of ConcreteBuilder *)

\* the part a part setter adds
PartOf(op) ==
  CASE op = "setPartA" -> "PartA"
    [] op = "setPartB" -> "PartB"
    [] op = "setPartC" -> "PartC"

\* C14: a part setter appends its part to the product under construction;
\* reset() and getProduct() put a new, empty Product in its place; getProduct()
\* returns the product that was under construction, with the parts added since
\* the last reset in call order; the returned product is not the builder's
\* product any more, and no call changes a product returned earlier.
C14_GetProduct ==
  [][/\ ret'.op \in {"setPartA", "setPartB", "setPartC"} =>
          /\ cbProduct' = cbProduct
          /\ products'[cbProduct] = Append(products[cbProduct], PartOf(ret'.op))
     /\ ret'.op = "resetProduct" =>
          /\ cbProduct' \notin HeldProducts
          /\ products'[cbProduct'] = <<>>
     /\ ret'.op = "getProduct" =>
          /\ ret'.kind = "product"
          /\ ret'.val = cbProduct
          /\ products'[ret'.val] = products[cbProduct]
          /\ cbProduct' \notin DOMAIN products
          /\ products'[cbProduct'] = <<>>
          /\ \A r \in HeldProducts : ret'.val # r
     /\ ret'.op \in {"setPartA", "setPartB", "setPartC", "resetProduct",
                     "getProduct"} =>
          \A r \in HeldProducts :
            r \in DOMAIN products' /\ products'[r] = products[r]]_vars

\* the client holds a product made of PartB then PartA while the builder, used
\* again, has a product with PartC alone
C14_Witness ==
  /\ ret.op = "setPartC"
  /\ products[cbProduct] = <<"PartC">>
  /\ \E r \in HeldProducts : products[r] = <<"PartB", "PartA">>

-----------------------------------------------------------------------------
(* Singleton, Logger and Application *)

NextSingle ==
  \/ SingletonGetInstance
  \/ LoggerGetInstance
  \/ \E v \in Values : SetValue(v)
  \/ GetValue
  \/ NewApplication
  \/ \E a \in 1..MaxApps : Run(a)
  \/ \E a \in 1..MaxApps : DropApplication(a)

SpecSingle == Init /\ [][NextSingle]_vars

\* the objects of class cls constructed so far
InstancesOf(cls) == {r \in DOMAIN singletons : singletons[r] = cls}

\* C15: of each singleton class at most one object was ever constructed; none
\* before the first getInstance(); every getInstance() so far returned that
\* object, which is the one the static field still holds; and every
\* Application logs through it.
C15_SingleInstance ==
  /\ \A cls \in Classes :
       /\ Cardinality(InstancesOf(cls)) <= 1
       /\ handed[cls] = InstancesOf(cls)
       /\ handed[cls] = {} <=> instance[cls] = Undefined
       /\ handed[cls] # {} => handed[cls] = {instance[cls]}
  /\ \A a \in DOMAIN apps : apps[a] = instance["Logger"]
  /\ ret.op = "getInstance" => ret.val = instance[ret.args[1]]

\* Logger.getInstance() returned the logger an Application already uses, after
\* the Singleton was created and its value set
C15_Witness ==
  /\ ret.op = "getInstance"
  /\ ret.args = <<"Logger">>
  /\ \E a \in DOMAIN apps : apps[a] = ret.val
  /\ instance["Singleton"] # Undefined
  /\ instance["Singleton"] # ret.val
  /\ value = 7

-----------------------------------------------------------------------------
(* The prototypes *)

NextProto ==
  \/ \E color \in Colors : NewRectangle(color)
  \/ \E color \in Colors : NewCircle(color)
  \/ \E name \in UserNames : NewConcretePrototype(name)
  \/ \E o \in 1..MaxShapes : Clone(o)
  \/ \E o \in 1..MaxShapes, color \in Colors : WriteNested(o, "color", color)
  \/ \E o \in 1..MaxShapes, name \in UserNames : WriteNested(o, "name", name)
  \/ \E o \in 1..MaxShapes : DropShape(o)

SpecProto == Init /\ [][NextProto]_vars

\* C16: clone() returns a new object of the original's class with the same
\* width and height or radius, whose nested record is a new record equal to the
\* original's at that moment, and leaves the original as it was; a write to a
\* field of one object's nested record changes that field of that record and
\* nothing of any other object, so neither of a clone and its original sees
\* the other's writes.
C16_CloneIsSeparate ==
  [][/\ ret'.op = "clone" =>
          /\ ret'.val \notin DOMAIN shapes
          /\ shapes'[ret'.val].class = shapes[ret'.b].class
          /\ shapes'[ret'.val].dims = shapes[ret'.b].dims
          /\ shapes'[ret'.val].nested \notin DOMAIN records
          /\ records'[shapes'[ret'.val].nested] = records[shapes[ret'.b].nested]
          /\ \A p \in DOMAIN shapes :
               /\ shapes'[p] = shapes[p]
               /\ records'[shapes[p].nested] = records[shapes[p].nested]
     /\ ret'.op = "write nested" =>
          /\ records'[shapes[ret'.b].nested][ret'.args[1]] = ret'.args[2]
          /\ \A f \in DOMAIN records[shapes[ret'.b].nested] \ {ret'.args[1]} :
               records'[shapes[ret'.b].nested][f] = records[shapes[ret'.b].nested][f]
          /\ \A p \in DOMAIN shapes \ {ret'.b} :
               /\ shapes'[p] = shapes[p]
               /\ records'[shapes[p].nested] = records[shapes[p].nested]]_vars

\* the user cloned from Alice was renamed Bob and the original is still Alice
C16_Witness ==
  /\ ret.op = "write nested"
  /\ ret.args = <<"name", "Bob">>
  /\ shapes[ret.b].proto # 0
  /\ records[shapes[ret.b].nested].name = "Bob"
  /\ records[shapes[shapes[ret.b].proto].nested].name = "Alice"
  /\ records[shapes[ret.b].nested].email
       = records[shapes[shapes[ret.b].proto].nested].email

-----------------------------------------------------------------------------
(* The GUI factories *)

NextGui ==
  \/ \E factory \in Families : CreateButton(factory)
  \/ \E factory \in Families, b \in 1..MaxWidgets : CreateCheckbox(factory, b)
  \/ \E c \in 1..MaxWidgets : Toggle(c)
  \/ \E r \in 1..MaxWidgets : DropWidget(r)

SpecGui == Init /\ [][NextGui]_vars

\* C17: createButton of a factory returns a new button of the factory's family
\* and createCheckbox(button) a new checkbox of the factory's family that holds
\* the button it was given; no call changes a component the client already
\* has; and toggle() runs onClick of the button the checkbox holds.
C17_OwnFamily ==
  [][/\ ret'.op = "createButton" =>
          /\ ret'.val \notin DOMAIN widgets
          /\ widgets'[ret'.val].kind = "button"
          /\ widgets'[ret'.val].family = ret'.args[1]
     /\ ret'.op = "createCheckbox" =>
          /\ ret'.val \notin DOMAIN widgets
          /\ widgets'[ret'.val].kind = "checkbox"
          /\ widgets'[ret'.val].family = ret'.args[1]
          /\ widgets'[ret'.val].button = ret'.args[2]
     /\ ret'.op = "toggle" =>
          /\ ret'.val = widgets[ret'.b].button
          /\ widgets'[ret'.val].kind = "button"
     /\ \A r \in DOMAIN widgets \cap DOMAIN widgets' : widgets'[r] = widgets[r]]_vars

\* a Windows checkbox made for a MacOS button was toggled and clicked that
\* button, not the Windows button the client also holds
C17_Witness ==
  /\ ret.op = "toggle"
  /\ widgets[ret.b].family = "Windows"
  /\ widgets[ret.b].button = ret.val
  /\ widgets[ret.val].family = "MacOS"
  /\ \E o \in DOMAIN widgets :
       o # ret.val /\ widgets[o].kind = "button" /\ widgets[o].family = "Windows"

-----------------------------------------------------------------------------
(* The minimal recipe and a pending phone number *)

=============================================================================
